---------------------------- MODULE Spec2Model ----------------------------
(***************************************************************************)
(* Icarus-Insight (AeroResearchAgent): the research pipeline of app.py,    *)
(* the planner of query_planner.py, the collector of data_collector.py and *)
(* the analysis engine of analysis_engine.py.                              *)
(*                                                                         *)
(* Python values are modelled as follows: a str is a TLA+ string, a list   *)
(* or tuple is a sequence, a dict is a function whose DOMAIN is the set of *)
(* keys present (d.get(k, default) is Get(d, k, default)).                 *)
(***************************************************************************)
EXTENDS Integers, Sequences, FiniteSets, TLC

VARIABLES
    query,          \* the user's query string
    llm,            \* behaviour of the text-completion backend (QueryPlanner.llm)
    llm_calls,      \* number of llm.invoke calls made so far
    search_params,  \* what decompose_query / _fallback_decompose returned
    documents,      \* the document list handed to the analysis engine
    network,        \* what build_citation_network returned
    trends,         \* what identify_trends returned
    filters,        \* the caller's arguments of conduct_research besides the query
    calls,          \* per adapter: "idle", "pending", "returned", "raised" or
                    \* "broke_contract" (its search returned no list)
    returned,       \* per adapter: the records its search returned
    results,        \* the local list `results` of the collect method that is running
    patents,        \* what collect_patents returned
    papers,         \* what collect_research_papers returned
    log,            \* the adapters an error line was printed for, in order
    summary,        \* what generate_research_summary returned
    report,         \* what conduct_research returned
    failure,        \* the exception conduct_research raised, "" when none
    random_state,   \* the generator of the random module, one for the process:
                    \* the draws taken from it and the runs that took them
    pc              \* position of the caller: the await it is suspended at

planVars == <<query, llm, llm_calls, search_params>>
analysisVars == <<documents, network, trends>>
runVars == <<filters, calls, returned, results, patents, papers, log, summary, report, failure>>

vars == <<planVars, analysisVars, runVars, random_state, pc>>

(***************************************************************************)
(* Bounds of the model.                                                    *)
(***************************************************************************)
MaxDocs == 4
MaxTrendDocs == 3
MaxQueryWords == 6
MaxPlannerWords == 2
MaxRunDocs == 3
MaxSummaryDocs == 2
MaxNetworkDocs == 5
MaxOrgDocs == 6
MaxRepeats == 1

(***************************************************************************)
(* Python str operations.                                                  *)
(***************************************************************************)
\* The characters used, in code-point order (str comparison is by code point).
Alphabet == " \"'(),-.0123456789:<>ABCDEFGHIJKLMNOPQRSTUVWXYZ[]_abcdefghijklmnopqrstuvwxyz{}"
UpperChars == "ABCDEFGHIJKLMNOPQRSTUVWXYZ"
LowerChars == "abcdefghijklmnopqrstuvwxyz"
DigitChars == "0123456789"

CharAt(s, i) == SubSeq(s, i, i)

CharSet(s) == {CharAt(s, i) : i \in 1..Len(s)}

IndexIn(s, c) == CHOOSE i \in 1..Len(s) : CharAt(s, i) = c

OrdOf == [c \in CharSet(Alphabet) |-> IndexIn(Alphabet, c)]

Ord(c) == OrdOf[c]

\* a < b for two str values
RECURSIVE StrLess(_, _)
StrLess(a, b) ==
    IF Len(b) = 0 THEN FALSE
    ELSE IF Len(a) = 0 THEN TRUE
    ELSE IF Head(a) = Head(b) THEN StrLess(Tail(a), Tail(b))
    ELSE Ord(Head(a)) < Ord(Head(b))

LowerOf == [c \in CharSet(Alphabet) |->
              IF c \in CharSet(UpperChars)
              THEN CharAt(LowerChars, IndexIn(UpperChars, c))
              ELSE c]

\* s.lower()
RECURSIVE StrLower(_)
StrLower(s) == IF Len(s) = 0 THEN "" ELSE LowerOf[Head(s)] \o StrLower(Tail(s))

\* sub in s
StrContains(sub, s) ==
    \E i \in 1..(Len(s) - Len(sub) + 1) : SubSeq(s, i, i + Len(sub) - 1) = sub

\* s.split(sep)[0] for a one-character separator
RECURSIVE FirstField(_, _)
FirstField(s, sep) ==
    IF Len(s) = 0 \/ Head(s) = sep THEN ""
    ELSE Head(s) \o FirstField(Tail(s), sep)

\* s.split(): the maximal runs of non-blank characters
RECURSIVE SplitWords(_, _)
SplitWords(s, word) ==
    IF Len(s) = 0 THEN (IF Len(word) = 0 THEN <<>> ELSE <<word>>)
    ELSE IF Head(s) = " "
         THEN (IF Len(word) = 0 THEN <<>> ELSE <<word>>) \o SplitWords(Tail(s), "")
         ELSE SplitWords(Tail(s), word \o Head(s))

StrSplit(s) == SplitWords(s, "")

IsDigits(s) == Len(s) > 0 /\ \A i \in 1..Len(s) : CharAt(s, i) \in CharSet(DigitChars)

RECURSIVE DigitsValue(_, _)
DigitsValue(s, acc) ==
    IF Len(s) = 0 THEN acc
    ELSE DigitsValue(Tail(s), 10 * acc + (IndexIn(DigitChars, Head(s)) - 1))

\* int(s) succeeds on a run of decimal digits (ValueError otherwise)
IntParses(s) == IsDigits(s)
IntOf(s) == DigitsValue(s, 0)

\* str(i) for a small index i
StrOfIndex(i) == CharAt(DigitChars, i + 1)

\* d.get(k, default)
Get(d, k, default) == IF k \in DOMAIN d THEN d[k] ELSE default

(***************************************************************************)
(* Documents: the records the adapters return (api_clients.py).            *)
(***************************************************************************)
PatentA == [id |-> "US10000111A1", title |-> "Ion Thruster System",
            abstract |-> "improves efficiency", assignee |-> "Boeing",
            publication_date |-> "2019-05-01", citation_count |-> 3]
PatentB == [id |-> "US10000222A1", title |-> "Carbon Wing System",
            abstract |-> "composite panel", assignee |-> "Airbus",
            publication_date |-> "2020-07-15", citation_count |-> 12]
\* a second record of the patent of PatentA, as another catalogue lists it
PatentC == [id |-> "US10000111A1", title |-> "Landing Gear System",
            abstract |-> "recovery of a stage", assignee |-> "SpaceX",
            publication_date |-> "2021-03-01", citation_count |-> 6]
PaperA  == [id |-> "2310.10001", title |-> "Advanced Drone Methods",
            summary |-> "novel electric techniques", authors |-> <<"Wei Zhang">>,
            published |-> "2021-03-01"]
\* a record with neither id nor date
Undated == [title |-> "Scramjet Note", abstract |-> "mach 5"]

DocPool == {PatentA, PatentB, PatentC, PaperA, Undated}

\* a paper record whose list of authors is empty
NoAuthors == [id |-> "2310.10002", title |-> "Composite Fiber Methods",
              summary |-> "novel carbon techniques", authors |-> <<>>,
              published |-> "2022-06-10"]

AllDocs == DocPool \cup {NoAuthors}

\* a patent of a sixth organization
PatentD == [id |-> "US10000333A1", title |-> "Satellite Bus System",
            abstract |-> "thermal control", assignee |-> "Lockheed Martin",
            publication_date |-> "2018-02-01", citation_count |-> 0]

\* records of six organizations (an undated record has the organization 'Unknown')
OrgPool == DocPool \cup {PatentD}

\* every record of the model
KnownDocs == AllDocs \cup OrgPool

SeqsUpTo(S, n) == UNION {[1..k -> S] : k \in 0..n}


\* document lists of at most n records
DocLists(n) == SeqsUpTo(DocPool, n)

IsDistinct(s) == \A a, b \in 1..Len(s) : a # b => s[a] # s[b]

\* document lists of at most n records, no record twice
DistinctDocLists(n) == {s \in DocLists(n) : IsDistinct(s)}

Min(a, b) == IF a <= b THEN a ELSE b

\* s[:n]
Prefix(s, n) == SubSeq(s, 1, Min(n, Len(s)))

(***************************************************************************)
(* AerospaceAnalysisEngine.build_citation_network                          *)
(***************************************************************************)
\* str(type(doc)) of a record: every adapter returns plain dicts
DocTypeName == "<class 'dict'>"

\* "patent" in str(type(doc)).lower()
TypeNamesPatent == StrContains("patent", StrLower(DocTypeName))

DocType(doc) == IF TypeNamesPatent THEN "patent" ELSE "paper"

\* the node of the document at (0-based) position i of the input
NodeOf(doc, i) ==
    [id           |-> Get(doc, "id", "unknown_" \o StrOfIndex(i)),
     title        |-> Get(doc, "title", "Untitled"),
     type         |-> DocType(doc),
     date         |-> Get(doc, "publication_date", Get(doc, "published", "unknown")),
     organization |-> Get(doc, "assignee", "unknown")]

Nodes(docs) == [i \in 1..Len(docs) |-> NodeOf(docs[i], i - 1)]

\* sorted() is stable: a node goes after every node whose date is not greater
RECURSIVE InsertByDate(_, _)
InsertByDate(sorted, node) ==
    IF Len(sorted) = 0 THEN <<node>>
    ELSE IF StrLess(node.date, Head(sorted).date) THEN <<node>> \o sorted
    ELSE <<Head(sorted)>> \o InsertByDate(Tail(sorted), node)

RECURSIVE SortByDate(_, _)
SortByDate(nodes, sorted) ==
    IF Len(nodes) = 0 THEN sorted
    ELSE SortByDate(Tail(nodes), InsertByDate(sorted, Head(nodes)))

\* sorted(nodes, key=lambda x: x['date'])
SortedNodes(nodes) == SortByDate(nodes, <<>>)

\* the first documents of the chronological order cite nothing
FirstCiting == 3
\* at most this many citations per document
MaxCitations == 3

\* Samples with a position allowed more than once in a sample
SamplesWithRepeats(i) ==
    {s \in SeqsUpTo(0..(i - 1), Min(MaxCitations, i)) : Len(s) >= 1}

\* random.sample(range(i), num) with num = random.randint(1, min(3, i)):
\* every sequence of num distinct (0-based) positions below i
Samples(i) ==
    {s \in SeqsUpTo(0..(i - 1), Min(MaxCitations, i)) : Len(s) >= 1 /\ IsDistinct(s)}

\* one sample for each position that cites
CitationChoices(n) ==
    {c \in [FirstCiting..(n - 1) -> UNION {Samples(i) : i \in FirstCiting..(n - 1)}] :
        \A i \in FirstCiting..(n - 1) : c[i] \in Samples(i)}

LinksFrom(sorted, i, cited) ==
    [k \in 1..Len(cited) |->
        [source |-> sorted[i + 1].id, target |-> sorted[cited[k] + 1].id,
         type |-> "citation"]]

RECURSIVE LinksUpTo(_, _, _)
LinksUpTo(sorted, choice, n) ==
    IF n <= FirstCiting THEN <<>>
    ELSE LinksUpTo(sorted, choice, n - 1) \o LinksFrom(sorted, n - 1, choice[n - 1])

\* the links of one run of the loop over sorted_nodes, given the random draws
Links(sorted, choice) == LinksUpTo(sorted, choice, Len(sorted))

\* the generator of the random module before any draw
FreshGenerator == [draws |-> 0, runs |-> {}]

\* the calls of random.randint and random.sample for n documents: two for each
\* position that cites
Draws(n) == IF n > FirstCiting THEN 2 * (n - FirstCiting) ELSE 0

\* the generator after a run has built the network of n documents: every draw
\* reads the state of the generator and writes the next one
AfterDraws(state, run, n) ==
    IF Draws(n) = 0 THEN state
    ELSE [draws |-> state.draws + Draws(n), runs |-> state.runs \cup {run}]

CitationNetwork(docs, choice) ==
    [nodes |-> Nodes(docs), links |-> Links(SortedNodes(Nodes(docs)), choice)]

(***************************************************************************)
(* AerospaceAnalysisEngine.identify_trends                                 *)
(***************************************************************************)
keyword_groups ==
    << <<"electric", "propulsion", "ion", "thruster">>,
       <<"composite", "materials", "carbon", "fiber">>,
       <<"autonomous", "navigation", "unmanned", "drone">>,
       <<"hypersonic", "scramjet", "mach", "high-speed">>,
       <<"reusable", "landing", "recovery", "return">> >>

trend_names ==
    << "Electric Propulsion Systems", "Advanced Composite Materials",
       "Autonomous Navigation", "Hypersonic Technology", "Reusable Launch Systems" >>

TrendDate(doc) == Get(doc, "publication_date", Get(doc, "published", ""))

\* the document gets a year bin: a non-empty date whose first field is an int
HasYear(doc) == Len(TrendDate(doc)) > 0 /\ IntParses(FirstField(TrendDate(doc), "-"))

YearOf(doc) == IntOf(FirstField(TrendDate(doc), "-"))

\* the year bin of each document of the model, computed once
YearBin == [d \in KnownDocs |-> IF HasYear(d) THEN <<YearOf(d)>> ELSE <<>>]

\* years[year]: the documents of a year, in input order
DocsOfYear(docs, year) == SelectSeq(docs, LAMBDA d : YearBin[d] = <<year>>)

YearKeys(docs) == {YearBin[docs[i]][1] : i \in {j \in 1..Len(docs) : YearBin[docs[j]] # <<>>}}

RECURSIVE SortedInts(_)
SortedInts(S) ==
    IF S = {} THEN <<>>
    ELSE LET m == CHOOSE x \in S : \A y \in S : x <= y
         IN  <<m>> \o SortedInts(S \ {m})

TrendText(doc) == StrLower(Get(doc, "title", "") \o " " \o Get(doc, "abstract", ""))

MatchesGroup(doc, keywords) ==
    LET text == TrendText(doc)
    IN  \E k \in 1..Len(keywords) : StrContains(StrLower(keywords[k]), text)

\* the match of each document of the model with each keyword group, computed once
GroupMatch ==
    [d \in KnownDocs |->
        [g \in {keyword_groups[i] : i \in 1..Len(keyword_groups)} |-> MatchesGroup(d, g)]]

CountMatches(docs_this_year, keywords) ==
    Len(SelectSeq(docs_this_year, LAMBDA d : GroupMatch[d][keywords]))

\* TrendPoint with the matches counted over every year's documents
TrendPointAllYears(docs, keywords, year) ==
    [year |-> year, count |-> CountMatches(docs, keywords),
     total_docs |-> Len(DocsOfYear(docs, year))]

TrendPoint(docs, keywords, year) ==
    [year |-> year, count |-> CountMatches(DocsOfYear(docs, year), keywords),
     total_docs |-> Len(DocsOfYear(docs, year))]

\* TrendPoints with a point for every year, matched or not
RECURSIVE TrendPointsEveryYear(_, _, _)
TrendPointsEveryYear(docs, keywords, years) ==
    IF Len(years) = 0 THEN <<>>
    ELSE <<TrendPoint(docs, keywords, Head(years))>>
             \o TrendPointsEveryYear(docs, keywords, Tail(years))

RECURSIVE TrendPoints(_, _, _)
TrendPoints(docs, keywords, years) ==
    IF Len(years) = 0 THEN <<>>
    ELSE LET p == TrendPoint(docs, keywords, Head(years))
         IN  (IF p.count > 0 THEN <<p>> ELSE <<>>)
                 \o TrendPoints(docs, keywords, Tail(years))

\* trend_data with the years taken in the order the documents bring them
TrendDataUnsorted(docs, keywords) ==
    LET RECURSIVE Years(_, _)
        Years(rest, seen) ==
            IF Len(rest) = 0 THEN seen
            ELSE Years(Tail(rest),
                       IF YearBin[Head(rest)] = <<>>
                            \/ \E k \in 1..Len(seen) : <<seen[k]>> = YearBin[Head(rest)]
                       THEN seen ELSE seen \o YearBin[Head(rest)])
    IN  TrendPoints(docs, keywords, Years(docs, <<>>))

\* trend_data of one keyword group
TrendData(docs, keywords) == TrendPoints(docs, keywords, SortedInts(YearKeys(docs)))

\* TrendsFrom with each group put in front of the groups before it
RECURSIVE TrendsFromReversed(_, _)
TrendsFromReversed(docs, i) ==
    IF i > Len(keyword_groups) THEN <<>>
    ELSE LET data == TrendData(docs, keyword_groups[i])
         IN  TrendsFromReversed(docs, i + 1) \o
                (IF Len(data) > 0
                 THEN << [name |-> trend_names[i], keywords |-> keyword_groups[i],
                          data |-> data] >>
                 ELSE <<>>)

RECURSIVE TrendsFrom(_, _)
TrendsFrom(docs, i) ==
    IF i > Len(keyword_groups) THEN <<>>
    ELSE LET data == TrendData(docs, keyword_groups[i])
         IN  (IF Len(data) > 0
              THEN << [name |-> trend_names[i], keywords |-> keyword_groups[i],
                       data |-> data] >>
              ELSE <<>>) \o TrendsFrom(docs, i + 1)

IdentifyTrends(docs) == IF Len(docs) = 0 THEN <<>> ELSE TrendsFrom(docs, 1)

(***************************************************************************)
(* Python values of mixed type (the entries of search_params) carry their  *)
(* type: None, a list, a tuple, a str.                                     *)
(***************************************************************************)
PyNone == [py |-> "None"]
PyList(s) == [py |-> "list", v |-> s]
PyTuple(s) == [py |-> "tuple", v |-> s]
PyStr(s) == [py |-> "str", v |-> s]

IsList(x) == x.py = "list"

(***************************************************************************)
(* QueryPlanner (query_planner.py)                                          *)
(***************************************************************************)
stop_words ==
    {"what", "when", "where", "which", "research", "find", "about", "with",
     "that", "this", "these", "those"}

\* the words kept as keywords
IsKeyword(word) == Len(word) > 3 /\ word \notin stop_words

FallbackKeywords(user_query) == SelectSeq(StrSplit(StrLower(user_query)), IsKeyword)

\* keywords[:5]
KeywordLimit == 5

\* _fallback_decompose without the limit on the keywords
FallbackDecomposeUnlimited(user_query) ==
    [keywords           |-> PyList(FallbackKeywords(user_query)),
     subsystems         |-> PyList(<<>>),
     ipc_codes          |-> PyList(<<"B64G">>),
     implied_date_range |-> PyTuple(<<"2010-01-01", "2024-12-31">>),
     organizations      |-> PyList(<<>>)]

\* QueryPlanner._fallback_decompose
FallbackDecompose(user_query) ==
    [keywords           |-> PyList(Prefix(FallbackKeywords(user_query), KeywordLimit)),
     subsystems         |-> PyList(<<>>),
     ipc_codes          |-> PyList(<<"B64G">>),
     implied_date_range |-> PyTuple(<<"2010-01-01", "2024-12-31">>),
     organizations      |-> PyList(<<>>)]

\* the first position of sub in s, 0 when there is none
FirstIndexOf(sub, s) ==
    LET at == {i \in 1..(Len(s) - Len(sub) + 1) : SubSeq(s, i, i + Len(sub) - 1) = sub}
    IN  IF at = {} THEN 0 ELSE CHOOSE i \in at : \A j \in at : i <= j

\* the length of the longest run of characters other than } and ] from position q
RECURSIVE RunLength(_, _)
RunLength(s, q) ==
    IF q > Len(s) \/ CharAt(s, q) \in {"}", "]"} THEN 0
    ELSE 1 + RunLength(s, q + 1)

\* [\[{]([^}\]]+)[}\]] matches at q: an opening bracket, a non-empty run, a closing one
BracketAt(s, q) ==
    /\ CharAt(s, q) \in {"[", "{"}
    /\ RunLength(s, q + 1) >= 1
    /\ q + RunLength(s, q + 1) < Len(s)

\* re.search(field + r'.*?[\[{]([^}\]]+)[}\]]', response, re.DOTALL): the groups
\* matched, <<>> when there is no match and <<group(1)>> when there is one
RegexGroup(field, response) ==
    LET p == FirstIndexOf(field, response)
        Q == {q \in (p + Len(field))..Len(response) : BracketAt(response, q)}
        q == CHOOSE x \in Q : \A y \in Q : x <= y
    IN  IF p = 0 \/ Q = {} THEN <<>>
        ELSE <<SubSeq(response, q + 1, q + RunLength(response, q + 1))>>

\* s.split(',')
RECURSIVE SplitComma(_, _)
SplitComma(s, field) ==
    IF Len(s) = 0 THEN <<field>>
    ELSE IF Head(s) = "," THEN <<field>> \o SplitComma(Tail(s), "")
    ELSE SplitComma(Tail(s), field \o Head(s))

\* s.strip(chars) for a set of characters
RECURSIVE StripLeft(_, _)
StripLeft(s, chars) ==
    IF Len(s) > 0 /\ Head(s) \in chars THEN StripLeft(Tail(s), chars) ELSE s

RECURSIVE StripRight(_, _)
StripRight(s, chars) ==
    IF Len(s) > 0 /\ CharAt(s, Len(s)) \in chars
    THEN StripRight(SubSeq(s, 1, Len(s) - 1), chars) ELSE s

Strip(s, chars) == StripRight(StripLeft(s, chars), chars)

\* k.strip().strip('"\'')
CleanItem(k) == Strip(Strip(k, {" "}), {"\"", "'"})

\* [k.strip().strip('"\'') for k in group.split(',')], [] without a match
RegexList(field, response) ==
    LET g == RegexGroup(field, response)
    IN  IF Len(g) = 0 THEN <<>>
        ELSE LET items == SplitComma(g[1], "")
             IN  [k \in 1..Len(items) |-> CleanItem(items[k])]

\* QueryPlanner._parse_response_with_regex
ParseResponseWithRegex(response) ==
    [keywords           |-> PyList(RegexList("keywords", response)),
     subsystems         |-> PyList(<<>>),
     ipc_codes          |-> PyList(RegexList("ipc_codes", response)),
     implied_date_range |-> PyNone,
     organizations      |-> PyList(RegexList("organizations", response))]

(***************************************************************************)
(* The text-completion backend.  llm is None ("absent") or an object whose  *)
(* invoke raises, returns an object that is no str, or returns a text.     *)
(***************************************************************************)
ReplyRaises == [r |-> "raises"]
ReplyObject == [r |-> "object"]
ReplyText(text) == [r |-> "text", text |-> text]

TextFullSpec ==
    "{'keywords': ['ion'], 'subsystems': ['Propulsion'], 'ipc_codes': ['F03H'], 'implied_date_range': None, 'organizations': ['NASA']}"
TextPartialSpec == "{'keywords': ['ion']}"
TextOddSpec == "{'keywords': 'ion', 'subsystems': None}"
TextList == "['ion', 'thruster']"
TextFields == "keywords = [\"Ion\", 'thruster'] and ipc_codes: {F03H}"
TextProse == "Sorry, no keywords ["
TextFullSummary ==
    "{'executive_summary': 'Ion work', 'methodology': 'search', 'detailed_findings': {}}"
TextPartialSummary == "{'executive_summary': 'Ion work'}"
TextOtherDict == "{'methodology': 'search'}"

PyDict(d) == [py |-> "dict", v |-> d]

\* ast.literal_eval(response) on the texts above: <<value>>, or <<>> when it raises
LiteralEval(response) ==
    CASE response = TextFullSpec ->
            << PyDict([keywords |-> PyList(<<"ion">>), subsystems |-> PyList(<<"Propulsion">>),
                       ipc_codes |-> PyList(<<"F03H">>), implied_date_range |-> PyNone,
                       organizations |-> PyList(<<"NASA">>)]) >>
      [] response = TextPartialSpec -> << PyDict([keywords |-> PyList(<<"ion">>)]) >>
      [] response = TextOddSpec ->
            << PyDict([keywords |-> PyStr("ion"), subsystems |-> PyNone]) >>
      [] response = TextList -> << PyList(<<"ion", "thruster">>) >>
      [] response = TextFullSummary ->
            << PyDict([executive_summary |-> PyStr("Ion work"),
                       methodology |-> PyStr("search"),
                       detailed_findings |-> PyDict(<<>>)]) >>
      [] response = TextPartialSummary ->
            << PyDict([executive_summary |-> PyStr("Ion work")]) >>
      [] response = TextOtherDict -> << PyDict([methodology |-> PyStr("search")]) >>
      [] OTHER -> <<>>

IsDict(x) == x.py = "dict"

\* the try block around ast.literal_eval: the dictionary, or the regex parse
ParseResponse(response) ==
    LET parsed == LiteralEval(response)
    IN  IF Len(parsed) = 1 /\ IsDict(parsed[1]) THEN parsed[1].v
        ELSE ParseResponseWithRegex(response)

\* QueryPlanner.decompose_query
DecomposeQuery(user_query, backend) ==
    IF backend.kind = "absent" THEN FallbackDecompose(user_query)
    ELSE IF backend.plan.r = "raises" THEN FallbackDecompose(user_query)
    \* literal_eval and re.search both raise on a value that is no str
    ELSE IF backend.plan.r = "object" THEN FallbackDecompose(user_query)
    ELSE ParseResponse(backend.plan.text)

\* the calls of llm.invoke decompose_query makes
DecomposeInvokes(backend) == IF backend.kind = "absent" THEN 0 ELSE 1

(***************************************************************************)
(* Queries: words joined by blanks.                                        *)
(***************************************************************************)
QueryWords == {" of ", "What", "Thruster", "landing"}

RECURSIVE JoinWords(_)
JoinWords(ws) ==
    IF Len(ws) = 0 THEN ""
    ELSE IF Len(ws) = 1 THEN ws[1]
    ELSE ws[1] \o " " \o JoinWords(Tail(ws))

Queries(n) == {JoinWords(ws) : ws \in SeqsUpTo(QueryWords, n)}

(***************************************************************************)
(* The analysis engine called on a document list.                          *)
(***************************************************************************)
NoNetwork == [nodes |-> <<>>, links |-> <<>>]
NoParams == <<>>
NoLlm == [kind |-> "absent"]
NoFilters == [start_date |-> PyNone, end_date |-> PyNone, organizations |-> PyNone,
              tech_categories |-> PyNone]
NoReport == <<>>
NoSummary == <<>>

Adapters == <<"google_patents", "uspto", "arxiv", "semantic_scholar">>
AdapterSet == {Adapters[i] : i \in 1..Len(Adapters)}

\* no run of conduct_research is under way
NoRun ==
    /\ filters = NoFilters
    /\ calls = [a \in AdapterSet |-> "idle"]
    /\ returned = [a \in AdapterSet |-> <<>>]
    /\ results = <<>>
    /\ patents = <<>>
    /\ papers = <<>>
    /\ log = <<>>
    /\ summary = NoSummary
    /\ report = NoReport
    /\ failure = ""

InitGraph ==
    /\ documents \in DistinctDocLists(MaxDocs)
    /\ network = NoNetwork
    /\ trends = <<>>
    /\ query = ""
    /\ llm = NoLlm
    /\ llm_calls = 0
    /\ search_params = NoParams
    /\ NoRun
    /\ random_state = FreshGenerator
    /\ pc = "start"

\* analysis_engine.build_citation_network(documents)
BuildCitationNetwork ==
    /\ pc = "start"
    /\ \E choice \in CitationChoices(Len(documents)) :
          network' = CitationNetwork(documents, choice)
    /\ pc' = "graph_built"
    /\ random_state' = AfterDraws(random_state, "run", Len(documents))
    /\ UNCHANGED <<planVars, documents, trends, runVars>>

\* a second call on the same documents: the function takes no seed and draws
\* from the generator of the random module as the first call left it
BuildCitationNetworkAgain ==
    /\ pc = "graph_built"
    /\ \E choice \in CitationChoices(Len(documents)) :
          network' = CitationNetwork(documents, choice)
    /\ pc' = "graph_rebuilt"
    /\ random_state' = AfterDraws(random_state, "run", Len(documents))
    /\ UNCHANGED <<planVars, documents, trends, runVars>>

NextGraph ==
    \/ BuildCitationNetwork
    \/ BuildCitationNetworkAgain

SpecGraph == InitGraph /\ [][NextGraph]_vars

InitNetwork ==
    /\ documents \in DistinctDocLists(MaxNetworkDocs)
    /\ network = NoNetwork
    /\ trends = <<>>
    /\ query = ""
    /\ llm = NoLlm
    /\ llm_calls = 0
    /\ search_params = NoParams
    /\ NoRun
    /\ random_state = FreshGenerator
    /\ pc = "start"

\* one call of build_citation_network
NextNetwork == BuildCitationNetwork

SpecNetwork == InitNetwork /\ [][NextNetwork]_vars

\* another run of conduct_research, going on while this one is suspended or
\* not yet started, builds the network of its own n documents
OtherRunBuildsNetwork ==
    /\ "other" \notin random_state.runs
    /\ \E n \in 0..MaxDocs : random_state' = AfterDraws(random_state, "other", n)
    /\ UNCHANGED <<planVars, analysisVars, runVars, pc>>

\* two runs in one process, in any order of their calls of build_citation_network
NextRuns ==
    \/ BuildCitationNetwork
    \/ OtherRunBuildsNetwork

SpecRuns == InitGraph /\ [][NextRuns]_vars

InitTrends ==
    /\ documents \in SeqsUpTo(AllDocs, MaxTrendDocs)
    /\ network = NoNetwork
    /\ trends = <<>>
    /\ query = ""
    /\ llm = NoLlm
    /\ llm_calls = 0
    /\ search_params = NoParams
    /\ NoRun
    /\ random_state = FreshGenerator
    /\ pc = "start"

\* analysis_engine.identify_trends(documents, time_period)
IdentifyTrendsCall ==
    /\ pc = "start"
    /\ trends' = IdentifyTrends(documents)
    /\ pc' = "trends_done"
    /\ UNCHANGED <<random_state, planVars, documents, network, runVars>>

NextTrends == IdentifyTrendsCall

SpecTrends == InitTrends /\ [][NextTrends]_vars

(***************************************************************************)
(* The planner called on a query.                                          *)
(***************************************************************************)
PlanReplies ==
    {ReplyRaises, ReplyObject} \cup
    {ReplyText(t) : t \in {TextFullSpec, TextPartialSpec, TextOddSpec, TextList,
                           TextFields, TextProse}}

PlannerLlms ==
    {NoLlm} \cup {[kind |-> "present", plan |-> p, summary |-> ReplyRaises] : p \in PlanReplies}

InitFallback ==
    /\ query \in Queries(MaxQueryWords)
    /\ llm = NoLlm
    /\ llm_calls = 0
    /\ search_params = NoParams
    /\ documents = <<>>
    /\ network = NoNetwork
    /\ trends = <<>>
    /\ NoRun
    /\ random_state = FreshGenerator
    /\ pc = "start"

\* query_planner._fallback_decompose(query)
FallbackDecomposeCall ==
    /\ pc = "start"
    /\ search_params' = FallbackDecompose(query)
    /\ pc' = "fallback_done"
    /\ UNCHANGED <<random_state, query, llm, llm_calls, analysisVars, runVars>>

NextFallback == FallbackDecomposeCall

SpecFallback == InitFallback /\ [][NextFallback]_vars

InitPlanner ==
    /\ query \in Queries(MaxPlannerWords)
    /\ llm \in PlannerLlms
    /\ llm_calls = 0
    /\ search_params = NoParams
    /\ documents = <<>>
    /\ network = NoNetwork
    /\ trends = <<>>
    /\ NoRun
    /\ random_state = FreshGenerator
    /\ pc = "start"

\* query_planner.decompose_query(query)
DecomposeQueryCall ==
    /\ pc = "start"
    /\ search_params' = DecomposeQuery(query, llm)
    /\ llm_calls' = llm_calls + DecomposeInvokes(llm)
    /\ pc' = "decomposed"
    /\ UNCHANGED <<random_state, query, llm, analysisVars, runVars>>

NextPlanner == DecomposeQueryCall

SpecPlanner == InitPlanner /\ [][NextPlanner]_vars

(***************************************************************************)
(* utils.py: generate_research_summary and extract_key_innovations         *)
(***************************************************************************)
NoDataSummary ==
    [executive_summary |-> PyStr("No relevant research data was found for your query."),
     methodology       |-> PyStr("The search was conducted across patent databases and academic repositories."),
     detailed_findings |-> PyDict(<<>>)]

PatentCount(docs) == Len(SelectSeq(docs, LAMBDA d : DocType(d) = "patent"))

\* the dates that are present and not empty
PublicationDates(docs) ==
    LET date(d) == Get(d, "publication_date", Get(d, "published", ""))
        dated == SelectSeq(docs, LAMBDA d : Len(date(d)) > 0)
    IN  {date(dated[k]) : k \in 1..Len(dated)}

DateRange(docs) ==
    LET dates == PublicationDates(docs)
    IN  IF dates = {} THEN "N/A"
        ELSE (CHOOSE d \in dates : \A e \in dates : ~StrLess(e, d)) \o " to " \o
             (CHOOSE d \in dates : \A e \in dates : ~StrLess(d, e))

\* doc.get('authors', ['Unknown'])[0] is evaluated for every document, with or
\* without an assignee: IndexError on an empty authors list
OrganizationRaises(docs) ==
    \E k \in 1..Len(docs) : Len(Get(docs[k], "authors", <<"Unknown">>)) = 0

\* generate_research_summary raises: nothing catches the IndexError
SummaryRaises(docs) == Len(docs) > 0 /\ OrganizationRaises(docs)

OrganizationOf(doc) == Get(doc, "assignee", Head(Get(doc, "authors", <<"Unknown">>)))

\* the keys of the organizations dict, in insertion order
RECURSIVE OrganizationKeys(_, _)
OrganizationKeys(docs, keys) ==
    IF Len(docs) = 0 THEN keys
    ELSE OrganizationKeys(Tail(docs),
             IF \E k \in 1..Len(keys) : keys[k] = OrganizationOf(Head(docs))
             THEN keys ELSE Append(keys, OrganizationOf(Head(docs))))

OrganizationCount(docs, org) == Len(SelectSeq(docs, LAMBDA d : OrganizationOf(d) = org))

\* sorted(organizations.items(), key=count, reverse=True): equal counts keep
\* their insertion order
\* InsertByCount with an organization put before those of equal count
RECURSIVE InsertByCountTiesLast(_, _, _)
InsertByCountTiesLast(docs, sorted, org) ==
    IF Len(sorted) = 0 THEN <<org>>
    ELSE IF OrganizationCount(docs, Head(sorted)) <= OrganizationCount(docs, org)
         THEN <<org>> \o sorted
         ELSE <<Head(sorted)>> \o InsertByCountTiesLast(docs, Tail(sorted), org)

RECURSIVE InsertByCount(_, _, _)
InsertByCount(docs, sorted, org) ==
    IF Len(sorted) = 0 THEN <<org>>
    ELSE IF OrganizationCount(docs, Head(sorted)) < OrganizationCount(docs, org)
         THEN <<org>> \o sorted
         ELSE <<Head(sorted)>> \o InsertByCount(docs, Tail(sorted), org)

RECURSIVE SortByCount(_, _, _)
SortByCount(docs, keys, sorted) ==
    IF Len(keys) = 0 THEN sorted
    ELSE SortByCount(docs, Tail(keys), InsertByCount(docs, sorted, Head(keys)))

TopOrganizations == 5

TopOrgs(docs) == Prefix(SortByCount(docs, OrganizationKeys(docs, <<>>), <<>>), TopOrganizations)

TechnicalAreas == 5

KeyTechnicalAreas(trnds) ==
    [i \in 1..Min(TechnicalAreas, IF Len(trnds) > 0 THEN Len(trnds) ELSE TechnicalAreas) |->
        IF i <= Len(trnds) THEN trnds[i].name ELSE "Area " \o StrOfIndex(i)]

\* the fallback summary: the three sections, the two texts by the values they
\* are formatted from
TemplateSummary(user_query, docs, trnds) ==
    [executive_summary |-> [py |-> "template", query |-> user_query, total |-> Len(docs),
                            patents |-> PatentCount(docs),
                            papers |-> Len(docs) - PatentCount(docs),
                            lead |-> IF Len(trnds) > 0 THEN trnds[1].name
                                     ELSE "The subject area"],
     methodology       |-> [py |-> "template", query |-> user_query, total |-> Len(docs)],
     detailed_findings |-> PyDict([areas |-> KeyTechnicalAreas(trnds),
                                   organizations |-> TopOrgs(docs),
                                   timeline |-> DateRange(docs)])]

\* documents[:10]
SampleSize == 10

\* "\n".join(...) is given one list per sampled document, not one str: it
\* raises TypeError as soon as there is a document
PromptRaises(docs) == Len(Prefix(docs, SampleSize)) > 0

\* the try block of generate_research_summary: <<result>> when it returns the
\* parsed reply, <<>> when it falls through to the template
BackendSummary(backend, docs) ==
    IF PromptRaises(docs) \/ backend.summary.r # "text" THEN <<>>
    ELSE LET parsed == LiteralEval(backend.summary.text)
         IN  IF Len(parsed) = 1 /\ IsDict(parsed[1])
                  /\ "executive_summary" \in DOMAIN parsed[1].v
             THEN <<parsed[1].v>> ELSE <<>>

\* the calls of llm.invoke generate_research_summary makes
SummaryInvokes(backend, docs) ==
    IF Len(docs) = 0 \/ backend.kind = "absent" \/ PromptRaises(docs) THEN 0 ELSE 1

\* generate_research_summary without the early return for no documents
GenerateResearchSummaryAlwaysTemplate(backend, user_query, docs, trnds) ==
    TemplateSummary(user_query, docs, trnds)

GenerateResearchSummary(backend, user_query, docs, trnds) ==
    IF Len(docs) = 0 THEN NoDataSummary
    ELSE IF backend.kind # "absent" /\ Len(BackendSummary(backend, docs)) = 1
         THEN BackendSummary(backend, docs)[1]
         ELSE TemplateSummary(user_query, docs, trnds)

InnovationDate(doc) == Get(doc, "publication_date", Get(doc, "published", "2000-01-01"))

\* the sort key (citation_count, date) of a is below that of b
KeyBelow(a, b) ==
    \/ Get(a, "citation_count", 0) < Get(b, "citation_count", 0)
    \/ /\ Get(a, "citation_count", 0) = Get(b, "citation_count", 0)
       /\ StrLess(InnovationDate(a), InnovationDate(b))

\* sorted(..., reverse=True) keeps the input order of equal keys
RECURSIVE InsertDescending(_, _)
InsertDescending(sorted, doc) ==
    IF Len(sorted) = 0 THEN <<doc>>
    ELSE IF KeyBelow(Head(sorted), doc) THEN <<doc>> \o sorted
    ELSE <<Head(sorted)>> \o InsertDescending(Tail(sorted), doc)

RECURSIVE SortDescending(_, _)
SortDescending(docs, sorted) ==
    IF Len(docs) = 0 THEN sorted
    ELSE SortDescending(Tail(docs), InsertDescending(sorted, Head(docs)))

MaxInnovations == 5
DescriptionLength == 300
TrlCap == 9

Truncated(text) ==
    IF Len(text) > DescriptionLength THEN SubSeq(text, 1, DescriptionLength) \o "..." ELSE text

Trl(doc) ==
    LET date == Get(doc, "publication_date", Get(doc, "published", "Unknown date"))
        base_trl == IF DocType(doc) = "patent" THEN 5 ELSE 3
        citation_boost == Min(2, Get(doc, "citation_count", 0) \div 5)
        recency_boost == IF Len(date) > 0 /\ ~StrLess(date, "2020-01-01") THEN 1 ELSE 0
    IN  Min(TrlCap, base_trl + citation_boost + recency_boost)

Innovation(doc) ==
    [title       |-> Get(doc, "title", "Untitled"),
     description |-> Truncated(Get(doc, "abstract",
                                   Get(doc, "summary", "No description available"))),
     source      |-> Get(doc, "id", "Unknown ID") \o " (" \o
                     (IF DocType(doc) = "patent"
                      THEN Get(doc, "assignee", "Unknown organization")
                      ELSE "Research Paper") \o ")",
     date        |-> Get(doc, "publication_date", Get(doc, "published", "Unknown date")),
     trl         |-> Trl(doc)]

ExtractKeyInnovations(docs) ==
    LET top == Prefix(SortDescending(docs, <<>>), MaxInnovations)
    IN  [k \in 1..Len(top) |-> Innovation(top[k])]

\* extract_technical_specifications: hasattr(doc, 'abstract') is False for a
\* dict, whatever its keys, so no document yields a specification
HasAbstractAttribute(doc) == FALSE

\* the vocabulary of _extract_parameters, each parameter with its unit
parameter_keywords ==
    [efficiency |-> "%", temperature |-> "K", thrust |-> "N", power |-> "W",
     weight |-> "kg", size |-> "m"]

\* AerospaceAnalysisEngine._extract_parameters: the parameters whose name is in
\* the text, each with its unit (the number put before the unit is a random draw)
ExtractParameters(text) ==
    LET found == {p \in DOMAIN parameter_keywords : StrContains(StrLower(p), StrLower(text))}
    IN  [p \in found |-> parameter_keywords[p]]

ExtractTechnicalSpecifications(docs) ==
    LET with == SelectSeq(docs, LAMBDA d : HasAbstractAttribute(d) /\ Len(Get(d, "abstract", "")) > 0)
    IN  [k \in 1..Len(with) |->
            [source_id |-> Get(with[k], "id", "unknown"), source_type |-> DocType(with[k]),
             title |-> Get(with[k], "title", "Untitled"),
             extracted_parameters |-> ExtractParameters(Get(with[k], "abstract", ""))]]

(***************************************************************************)
(* AerospaceDataCollector (data_collector.py) and conduct_research (app.py) *)
(***************************************************************************)
Category(a) == IF a \in {"google_patents", "uspto"} THEN "patents" ELSE "papers"

AdaptersOf(category) == {a \in AdapterSet : Category(a) = category}

PatentPool == {PatentA, PatentB, PatentC}
PaperPool == {PaperA, Undated}

RecordPool(a) == IF Category(a) = "patents" THEN PatentPool ELSE PaperPool

\* what awaiting an adapter's search can end with: it raises, it returns None
\* instead of a list, or it returns a list of at most n records (one adapter
\* does not return a record twice; two adapters may return the same record)
Outcomes(a, n) ==
    {[raised |-> TRUE, iterable |-> TRUE, records |-> <<>>],
     [raised |-> FALSE, iterable |-> FALSE, records |-> <<>>]} \cup
    {[raised |-> FALSE, iterable |-> TRUE, records |-> r] :
        r \in {s \in SeqsUpTo(RecordPool(a), n) : IsDistinct(s)}}

\* results.extend(None) raises TypeError, inside the adapter's try block
ExtendRaises(outcome) == ~outcome.raised /\ ~outcome.iterable

\* the try block around an adapter with the error line dropping what was collected
AfterAdapterClearing(res, outcome) ==
    IF outcome.raised \/ ExtendRaises(outcome) THEN <<>> ELSE res \o outcome.records

\* the try block around an adapter: results.extend(...), or the error is printed
AfterAdapter(res, outcome) ==
    IF outcome.raised \/ ExtendRaises(outcome) THEN res ELSE res \o outcome.records

StatusOf(outcome) ==
    IF outcome.raised THEN "raised"
    ELSE IF ~outcome.iterable THEN "broke_contract" ELSE "returned"

LogAfter(a, outcome) ==
    IF outcome.raised \/ ExtendRaises(outcome) THEN Append(log, a) ELSE log

\* search_params.update({"date_range": ..., "organizations": ..., "tech_categories": ...})
\* UpdateParams with the planner's organizations kept where the caller gave none
UpdateParamsKeepingPlanned(params, f) ==
    [k \in DOMAIN params \cup {"date_range", "organizations", "tech_categories"} |->
        IF k = "date_range" THEN PyTuple(<<f.start_date, f.end_date>>)
        ELSE IF k = "organizations"
        THEN IF f.organizations = PyNone THEN Get(params, "organizations", PyNone)
             ELSE f.organizations
        ELSE IF k = "tech_categories" THEN f.tech_categories
        ELSE params[k]]

UpdateParams(params, f) ==
    [k \in DOMAIN params \cup {"date_range", "organizations", "tech_categories"} |->
        IF k = "date_range" THEN PyTuple(<<f.start_date, f.end_date>>)
        ELSE IF k = "organizations" THEN f.organizations
        ELSE IF k = "tech_categories" THEN f.tech_categories
        ELSE params[k]]

\* `for subsystem in subsystems` with subsystem.lower(): a list of str, or the
\* default [] when the key is absent
SubsystemsIterable(params) ==
    "subsystems" \notin DOMAIN params \/ params["subsystems"].py \in {"list", "tuple", "str"}

\* the records collected in the run so far
Collected == Len(patents) + Len(results)

\* conduct_research up to the first await: decompose_query, update, and
\* collect_patents calling the Google Patents adapter
ConductResearch ==
    /\ pc = "start"
    /\ search_params' = UpdateParams(DecomposeQuery(query, llm), filters)
    /\ llm_calls' = llm_calls + DecomposeInvokes(llm)
    /\ calls' = [calls EXCEPT !["google_patents"] = "pending"]
    /\ results' = <<>>
    /\ pc' = "await_google_patents"
    /\ UNCHANGED <<random_state, query, llm, analysisVars, filters, returned, patents, papers, log,
                   summary, report, failure>>

\* the Google Patents search ends; collect_patents calls the USPTO adapter
GooglePatentsDone ==
    /\ pc = "await_google_patents"
    /\ \E o \in Outcomes("google_patents", MaxRunDocs - Collected) :
          /\ results' = AfterAdapter(results, o)
          /\ returned' = [returned EXCEPT !["google_patents"] = o.records]
          /\ log' = LogAfter("google_patents", o)
          /\ calls' = [calls EXCEPT !["google_patents"] = StatusOf(o), !["uspto"] = "pending"]
    /\ pc' = "await_uspto"
    /\ UNCHANGED <<random_state, planVars, analysisVars, filters, patents, papers, summary, report, failure>>

\* the USPTO search ends; collect_patents returns and collect_research_papers
\* runs up to its call of the arXiv adapter
UsptoDone ==
    /\ pc = "await_uspto"
    /\ \E o \in Outcomes("uspto", MaxRunDocs - Collected) :
          /\ patents' = AfterAdapter(results, o)
          /\ returned' = [returned EXCEPT !["uspto"] = o.records]
          /\ log' = LogAfter("uspto", o)
          /\ IF SubsystemsIterable(search_params)
             THEN /\ calls' = [calls EXCEPT !["uspto"] = StatusOf(o), !["arxiv"] = "pending"]
                  /\ pc' = "await_arxiv"
                  /\ failure' = failure
             ELSE /\ calls' = [calls EXCEPT !["uspto"] = StatusOf(o)]
                  /\ pc' = "raised"
                  /\ failure' = "TypeError"
    /\ results' = <<>>
    /\ UNCHANGED <<random_state, planVars, analysisVars, filters, papers, summary, report>>

\* the arXiv search ends; collect_research_papers calls the Semantic Scholar adapter
ArxivDone ==
    /\ pc = "await_arxiv"
    /\ \E o \in Outcomes("arxiv", MaxRunDocs - Collected) :
          /\ results' = AfterAdapter(results, o)
          /\ returned' = [returned EXCEPT !["arxiv"] = o.records]
          /\ log' = LogAfter("arxiv", o)
          /\ calls' = [calls EXCEPT !["arxiv"] = StatusOf(o), !["semantic_scholar"] = "pending"]
    /\ pc' = "await_semantic_scholar"
    /\ UNCHANGED <<random_state, planVars, analysisVars, filters, patents, papers, summary, report, failure>>

\* collect_technical_specifications: a placeholder that returns no records
CollectTechnicalSpecifications == <<>>

\* what conduct_research returns
Report(sections, pats, paps, docs, net, trnds) ==
    [summary           |-> sections["executive_summary"],
     methodology       |-> sections["methodology"],
     innovations       |-> ExtractKeyInnovations(docs),
     \* the templates are filled with these data; the rendering is not modelled
     visualizations    |-> [patent_landscape |-> pats, citation_network |-> net,
                            timeline |-> trnds],
     detailed_findings |-> sections["detailed_findings"],
     raw_data          |-> [patents |-> pats, papers |-> paps,
                            specifications |-> ExtractTechnicalSpecifications(docs)]]

ReportKeysNeeded == {"executive_summary", "methodology", "detailed_findings"}

\* the Semantic Scholar search ends; collect_research_papers returns and
\* conduct_research analyses the documents and returns the report
SemanticScholarDone ==
    /\ pc = "await_semantic_scholar"
    /\ \E o \in Outcomes("semantic_scholar", MaxRunDocs - Collected) :
         LET paps == AfterAdapter(results, o)
             all_documents == patents \o paps \o CollectTechnicalSpecifications
             trnds == IdentifyTrends(all_documents)
             sections == GenerateResearchSummary(llm, query, all_documents, trnds)
         IN  /\ papers' = paps
             /\ returned' = [returned EXCEPT !["semantic_scholar"] = o.records]
             /\ log' = LogAfter("semantic_scholar", o)
             /\ calls' = [calls EXCEPT !["semantic_scholar"] = StatusOf(o)]
             /\ documents' = all_documents
             /\ trends' = trnds
             /\ llm_calls' = llm_calls + SummaryInvokes(llm, all_documents)
             /\ \E choice \in CitationChoices(Len(all_documents)) :
                   /\ network' = CitationNetwork(all_documents, choice)
                   /\ IF SummaryRaises(all_documents)
                      THEN /\ summary' = summary
                           /\ report' = report
                           /\ pc' = "raised"
                           /\ failure' = "IndexError"
                      ELSE IF ReportKeysNeeded \subseteq DOMAIN sections
                      THEN /\ summary' = sections
                           /\ report' = Report(sections, patents, paps, all_documents,
                                               network', trnds)
                           /\ pc' = "delivered"
                           /\ failure' = failure
                      ELSE /\ summary' = sections
                           /\ report' = report
                           /\ pc' = "raised"
                           /\ failure' = "KeyError"
    /\ results' = <<>>
    /\ random_state' = AfterDraws(random_state, "run", Len(documents'))
    /\ UNCHANGED <<query, llm, search_params, filters, patents>>

SomeFilters == [start_date |-> PyStr("2015-01-01"), end_date |-> PyStr("2020-12-31"),
                organizations |-> PyList(<<"NASA">>),
                tech_categories |-> PyList(<<"Propulsion">>)]

RunQueries == {"What Thruster"}

RunLlms ==
    {NoLlm} \cup
    {[kind |-> "present", plan |-> p, summary |-> ReplyText(TextPartialSummary)] :
        p \in {ReplyText(TextPartialSpec), ReplyText(TextOddSpec)}}

Init ==
    /\ query \in RunQueries
    /\ llm \in RunLlms
    /\ llm_calls = 0
    /\ search_params = NoParams
    /\ documents = <<>>
    /\ network = NoNetwork
    /\ trends = <<>>
    /\ filters \in {NoFilters, SomeFilters}
    /\ calls = [a \in AdapterSet |-> "idle"]
    /\ returned = [a \in AdapterSet |-> <<>>]
    /\ results = <<>>
    /\ patents = <<>>
    /\ papers = <<>>
    /\ log = <<>>
    /\ summary = NoSummary
    /\ report = NoReport
    /\ failure = ""
    /\ random_state = FreshGenerator
    /\ pc = "start"

Next ==
    \/ ConductResearch
    \/ GooglePatentsDone
    \/ UsptoDone
    \/ ArxivDone
    \/ SemanticScholarDone

Spec == Init /\ [][Next]_vars

(***************************************************************************)
(* generate_research_summary called on a document list.                    *)
(***************************************************************************)
SummaryReplies ==
    {ReplyRaises, ReplyObject} \cup
    {ReplyText(t) : t \in {TextProse, TextFullSummary, TextPartialSummary, TextOtherDict}}

SummaryLlms ==
    {NoLlm} \cup {[kind |-> "present", plan |-> ReplyRaises, summary |-> r] : r \in SummaryReplies}

InitSummary ==
    /\ documents \in {d \in SeqsUpTo(AllDocs, MaxSummaryDocs) : Len(d) > 0}
    /\ network = NoNetwork
    /\ trends = IdentifyTrends(documents)
    /\ query \in RunQueries
    /\ llm \in SummaryLlms
    /\ llm_calls = 0
    /\ search_params = NoParams
    /\ NoRun
    /\ random_state = FreshGenerator
    /\ pc = "start"

\* generate_research_summary(llm, query, documents, trends, specifications)
GenerateResearchSummaryCall ==
    /\ pc = "start"
    /\ IF SummaryRaises(documents)
       THEN /\ summary' = summary
            /\ failure' = "IndexError"
            /\ llm_calls' = llm_calls
            /\ pc' = "raised"
       ELSE /\ summary' = GenerateResearchSummary(llm, query, documents, trends)
            /\ failure' = failure
            /\ llm_calls' = llm_calls + SummaryInvokes(llm, documents)
            /\ pc' = "summarised"
    /\ UNCHANGED <<random_state, query, llm, search_params, analysisVars, filters, calls, returned,
                   results, patents, papers, log, report>>

NextSummary == GenerateResearchSummaryCall

SpecSummary == InitSummary /\ [][NextSummary]_vars

\* document lists for the organization ranking: up to MaxOrgDocs records, each
\* once, then up to MaxRepeats records over again
OrgDocLists ==
    {b \o e : b \in {s \in SeqsUpTo(OrgPool, MaxOrgDocs) : Len(s) > 0 /\ IsDistinct(s)},
              e \in SeqsUpTo(OrgPool, MaxRepeats)}

InitOrganizations ==
    /\ documents \in OrgDocLists
    /\ network = NoNetwork
    /\ trends = IdentifyTrends(documents)
    /\ query \in RunQueries
    /\ llm = NoLlm
    /\ llm_calls = 0
    /\ search_params = NoParams
    /\ NoRun
    /\ random_state = FreshGenerator
    /\ pc = "start"

NextOrganizations == GenerateResearchSummaryCall

SpecOrganizations == InitOrganizations /\ [][NextOrganizations]_vars

\* the arguments collect_patents passes to the search of a patent adapter
PatentSearchArguments(params) ==
    [keywords   |-> Get(params, "keywords", PyList(<<>>)),
     ipc_codes  |-> Get(params, "ipc_codes", PyList(<<>>)),
     date_range |-> Get(params, "date_range", PyTuple(<<PyNone, PyNone>>)),
     assignees  |-> Get(params, "organizations", PyList(<<>>))]

\* a caller who gives the dates and no organizations
DateFilters == [start_date |-> PyStr("2015-01-01"), end_date |-> PyStr("2020-12-31"),
                organizations |-> PyNone, tech_categories |-> PyNone]

\* a run up to its calls of the patent adapters
InitPatentSearch ==
    /\ query \in Queries(MaxPlannerWords)
    /\ llm \in PlannerLlms
    /\ llm_calls = 0
    /\ search_params = NoParams
    /\ documents = <<>>
    /\ network = NoNetwork
    /\ trends = <<>>
    /\ filters \in {NoFilters, SomeFilters, DateFilters}
    /\ calls = [a \in AdapterSet |-> "idle"]
    /\ returned = [a \in AdapterSet |-> <<>>]
    /\ results = <<>>
    /\ patents = <<>>
    /\ papers = <<>>
    /\ log = <<>>
    /\ summary = NoSummary
    /\ report = NoReport
    /\ failure = ""
    /\ random_state = FreshGenerator
    /\ pc = "start"

NextPatentSearch ==
    \/ ConductResearch
    \/ GooglePatentsDone

SpecPatentSearch == InitPatentSearch /\ [][NextPatentSearch]_vars

(***************************************************************************)
(* Properties of the citation network.                                     *)
(***************************************************************************)
GraphBuilt == pc = "graph_built"

NodesWithId(id) == {i \in 1..Len(network.nodes) : network.nodes[i].id = id}

LinkSet == {network.links[k] : k \in 1..Len(network.links)}

\* C1: every link of the network returned by build_citation_network goes from
\* a document to a document with a strictly earlier date, also when documents
\* share a date or have none.
C1_LinksStrictlyOlder ==
    GraphBuilt =>
        \A l \in LinkSet :
            \E s \in NodesWithId(l.source), t \in NodesWithId(l.target) :
                StrLess(network.nodes[t].date, network.nodes[s].date)

Successors(S) == {l.target : l \in {m \in LinkSet : m.source \in S}}

RECURSIVE ReachedWithin(_, _)
ReachedWithin(S, steps) ==
    IF steps = 0 THEN {}
    ELSE Successors(S) \cup ReachedWithin(Successors(S), steps - 1)

NodeIds == {network.nodes[i].id : i \in 1..Len(network.nodes)}

\* C2: the links of the network form a directed graph over the node ids with
\* no cycle and no self-loop, also when records share an id or lack one.
C2_NoCycle ==
    GraphBuilt =>
        /\ \A l \in LinkSet : l.source # l.target
        /\ \A id \in NodeIds : id \notin ReachedWithin({id}, Cardinality(NodeIds))

\* C3: no link of the network has as its source the id of one of the three
\* earliest-dated documents.
C3_EarliestCiteNothing ==
    GraphBuilt =>
        LET sorted == SortedNodes(network.nodes)
        IN  \A i \in 1..Min(3, Len(sorted)) :
                \A l \in LinkSet : l.source # sorted[i].id

\* the document list in every order
Orderings(docs) ==
    {[i \in 1..Len(docs) |-> docs[f[i]]] : f \in Permutations(1..Len(docs))}

\* the documents (by title) in chronological index order
Chronology(docs) ==
    LET sorted == SortedNodes(Nodes(docs))
    IN  [i \in 1..Len(sorted) |-> sorted[i].title]

\* C15: build_citation_network gives every document the same chronological
\* index in any order of the same documents.
C15_IndexOrderFree ==
    GraphBuilt =>
        \A other \in Orderings(documents) : Chronology(other) = Chronology(documents)

OwnLinks(sorted, own, i) ==
    /\ \A k \in 1..Len(own) : own[k].source = sorted[i + 1].id
    /\ \E cited \in [1..Len(own) -> 0..(i - 1)] :
          /\ \A a, b \in 1..Len(own) : a # b => cited[a] # cited[b]
          /\ \A k \in 1..Len(own) : sorted[cited[k] + 1].id = own[k].target

\* links is what the documents from chronological index i on originate, in
\* index order: none below index 3, between 1 and min(3, i) from index i >= 3
RECURSIVE OriginatedFrom(_, _, _)
OriginatedFrom(sorted, links, i) ==
    IF i >= Len(sorted) THEN Len(links) = 0
    ELSE IF i < 3 THEN OriginatedFrom(sorted, links, i + 1)
    ELSE \E n \in 1..Min(3, i) :
            /\ n <= Len(links)
            /\ OwnLinks(sorted, SubSeq(links, 1, n), i)
            /\ OriginatedFrom(sorted, SubSeq(links, n + 1, Len(links)), i + 1)

\* C22: with the documents indexed by the ascending date sort, every document
\* at index i >= 3 originates between 1 and min(3, i) links, each to a distinct
\* document at an index below i, and the documents at an index below 3
\* originate none.
C22_LinksPerIndex ==
    GraphBuilt => OriginatedFrom(SortedNodes(network.nodes), network.links, 0)

\* five documents: the two latest cite, the last one three of the four before it
C22_Witness ==
    /\ GraphBuilt
    /\ Len(documents) = 5
    /\ Len(network.links) = 4
    /\ network.links[1].source # network.links[2].source

\* C21: runs of conduct_research that go on at the same time share no mutable
\* state: no value is read or written by more than one run, whatever the
\* order of their steps.
C21_NoSharedState == Cardinality(random_state.runs) <= 1

(***************************************************************************)
(* Properties of the trend series.                                         *)
(***************************************************************************)
TrendsDone == pc = "trends_done"

TrendPointSet == UNION {{trends[g].data[k] : k \in 1..Len(trends[g].data)} : g \in 1..Len(trends)}

\* C4: every point identify_trends emits has 0 < count <= total_docs.
C4_CountWithinTotal ==
    TrendsDone => \A p \in TrendPointSet : 0 < p.count /\ p.count <= p.total_docs

\* a year with several documents of which only some match a group
C4_Witness == TrendsDone /\ \E p \in TrendPointSet : 0 < p.count /\ p.count < p.total_docs

\* C14: identify_trends returns the same list of trend series for the same
\* documents in any order.
C14_TrendsOrderFree ==
    TrendsDone => \A other \in Orderings(documents) : IdentifyTrends(other) = trends

\* documents given latest year first, one group matched in two years
C14_Witness ==
    /\ TrendsDone
    /\ Len(documents) >= 2
    /\ YearBin[documents[1]] # <<>> /\ YearBin[documents[2]] # <<>>
    /\ YearBin[documents[1]][1] > YearBin[documents[2]][1]
    /\ \E g \in 1..Len(trends) : Len(trends[g].data) >= 2

\* the documents of the input that have the year and match the keyword group
MatchingOfYear(keywords, year) ==
    {i \in 1..Len(documents) :
        YearBin[documents[i]] = <<year>> /\ GroupMatch[documents[i]][keywords]}

\* C23: identify_trends emits no point for a year in which no document matches
\* the group and no group without a point: every returned group has a
\* non-empty data list, and a group that no document matches in any year is
\* absent from the output.
C23_NoEmptyPointOrGroup ==
    TrendsDone =>
        /\ \A g \in 1..Len(trends) :
              /\ Len(trends[g].data) > 0
              /\ \A k \in 1..Len(trends[g].data) :
                    MatchingOfYear(trends[g].keywords, trends[g].data[k].year) # {}
        /\ \A i \in 1..Len(keyword_groups) :
              (\A y \in YearKeys(documents) : MatchingOfYear(keyword_groups[i], y) = {})
                  => \A g \in 1..Len(trends) : trends[g].name # trend_names[i]

\* a returned group skips a year that has documents, and a group is left out
C23_Witness ==
    /\ TrendsDone
    /\ \E g \in 1..Len(trends) : \E y \in YearKeys(documents) :
          \A k \in 1..Len(trends[g].data) : trends[g].data[k].year # y
    /\ \E i \in 1..Len(keyword_groups) :
          \A g \in 1..Len(trends) : trends[g].name # trend_names[i]

\* the place of a group in the registry
RegistryIndex(name) == CHOOSE i \in 1..Len(trend_names) : trend_names[i] = name

\* C24: the groups identify_trends returns are in the order of the keyword
\* group registry, and the points of each group are in strictly ascending year
\* order, no year twice.
C24_RegistryAndYearOrder ==
    TrendsDone =>
        /\ \A a, b \in 1..Len(trends) :
              a < b => RegistryIndex(trends[a].name) < RegistryIndex(trends[b].name)
        /\ \A g \in 1..Len(trends) : \A k, l \in 1..Len(trends[g].data) :
              k < l => trends[g].data[k].year < trends[g].data[l].year

\* two groups returned, one of them with points in two years
C24_Witness ==
    /\ TrendsDone
    /\ Len(trends) >= 2
    /\ \E g \in 1..Len(trends) : Len(trends[g].data) >= 2

\* the abstract of a document: a patent record carries it as 'abstract', a
\* paper record as 'summary'
AbstractOf(doc) == Get(doc, "abstract", Get(doc, "summary", ""))

\* the title or the abstract of the document contains a keyword of the group
TextMatches(doc, keywords) ==
    LET text == StrLower(Get(doc, "title", "") \o " " \o AbstractOf(doc))
    IN  \E k \in 1..Len(keywords) : StrContains(StrLower(keywords[k]), text)

\* TextMatches for each document of the model and each group, computed once
TextMatch ==
    [d \in KnownDocs |->
        [g \in {keyword_groups[i] : i \in 1..Len(keyword_groups)} |-> TextMatches(d, g)]]

TextMatchingOfYear(keywords, year) ==
    {i \in 1..Len(documents) :
        YearBin[documents[i]] = <<year>> /\ TextMatch[documents[i]][keywords]}

\* C29: for every group and year the emitted count is the number of documents
\* of that year, patents and papers alike, whose title or abstract contains a
\* keyword of the group, and total_docs the number of documents of that year;
\* a paper whose abstract contains a keyword is counted.
C29_CountsEveryMatch ==
    TrendsDone =>
        \A i \in 1..Len(keyword_groups) : \A y \in YearKeys(documents) :
            LET matched == Cardinality(TextMatchingOfYear(keyword_groups[i], y))
                point == [year |-> y, count |-> matched,
                          total_docs |-> Len(DocsOfYear(documents, y))]
            IN  /\ matched > 0 =>
                      \E g \in 1..Len(trends) :
                          /\ trends[g].name = trend_names[i]
                          /\ \E k \in 1..Len(trends[g].data) : trends[g].data[k] = point
                /\ matched = 0 =>
                      \A g \in 1..Len(trends) :
                          trends[g].name = trend_names[i] =>
                              \A k \in 1..Len(trends[g].data) : trends[g].data[k].year # y

(***************************************************************************)
(* Properties of the collector and of a run.                               *)
(***************************************************************************)
Done(a) == calls[a] \in {"returned", "raised"}

Failed(a) == calls[a] = "raised"

\* the records of the adapters of a category that returned, in calling order
RECURSIVE MergedFrom(_, _)
MergedFrom(category, i) ==
    IF i > Len(Adapters) THEN <<>>
    ELSE (IF Category(Adapters[i]) = category /\ calls[Adapters[i]] = "returned"
          THEN returned[Adapters[i]] ELSE <<>>) \o MergedFrom(category, i + 1)

\* one adapter of the category raised and every other one returned
OneFailed(category) ==
    /\ \A a \in AdaptersOf(category) : Done(a)
    /\ Cardinality({a \in AdaptersOf(category) : Failed(a)}) = 1

\* C5: when one adapter of a category raised and the other returned, what the
\* collector returns for the category is exactly the concatenation of the records
\* of the adapters that returned, and the collect call did not raise: the run went
\* on past it (the only raise after collect_patents is the subsystems loop of
\* collect_research_papers, which no adapter failure causes).
C5_FailureIsolated ==
    /\ OneFailed("patents") =>
          /\ patents = MergedFrom("patents", 1)
          /\ (pc = "raised" => ~SubsystemsIterable(search_params))
    /\ OneFailed("papers") =>
          /\ papers = MergedFrom("papers", 1)
          /\ pc = "delivered"

\* Google Patents returned three records, USPTO raised, and collect_patents
\* returned the three
C5_Witness ==
    /\ calls["google_patents"] = "returned"
    /\ Len(returned["google_patents"]) = 3
    /\ Failed("uspto")
    /\ pc = "await_arxiv"
    /\ patents = returned["google_patents"]
    /\ log = <<"uspto">>

\* C6: when every adapter of a category raised, the collector's result for the
\* category is empty and the run does not raise.
C6_AllFailedStillDelivers ==
    \A category \in {"patents", "papers"} :
        (\A a \in AdaptersOf(category) : Failed(a)) =>
            /\ (IF category = "patents" THEN patents ELSE papers) = <<>>
            /\ pc # "raised"

\* C7: the adapter calls of a category run concurrently: while one adapter's call
\* is awaited, every adapter of its category has been called.
C7_AdaptersConcurrent ==
    \A a \in AdapterSet :
        calls[a] = "pending" => \A b \in AdaptersOf(Category(a)) : calls[b] # "idle"

\* C8: every delivered report carries a status record with one outcome per
\* adapter.
C8_ReportCarriesStatus ==
    pc = "delivered" =>
        /\ "status" \in DOMAIN report
        /\ DOMAIN report["status"] = AdapterSet

AllDone == \A a \in AdapterSet : calls[a] \notin {"idle", "pending"}

\* C11: when the run collected no document, the report delivered has the "no
\* data" summary and methodology, empty detailed findings, an empty citation
\* graph and no trend, and no stage after the collection raised.
C11_NoDataReport ==
    (AllDone /\ patents \o papers = <<>>) =>
        /\ pc = "delivered"
        /\ failure = ""
        /\ report.summary = NoDataSummary.executive_summary
        /\ report.methodology = NoDataSummary.methodology
        /\ DOMAIN report.detailed_findings.v = {}
        /\ report.visualizations.citation_network = NoNetwork
        /\ report.visualizations.timeline = <<>>
        /\ report.innovations = <<>>

\* every adapter was called, one raised and the others returned no record, and
\* the report was delivered
C11_Witness ==
    /\ pc = "delivered"
    /\ documents = <<>>
    /\ Failed("google_patents")
    /\ \A a \in AdapterSet \ {"google_patents"} : calls[a] = "returned"
    /\ report.summary = NoDataSummary.executive_summary

\* C12: generate_research_summary, for every non-empty document list and every
\* behaviour of the backend, returns without raising a summary that has
\* executive_summary, methodology and detailed_findings.
C12_SummaryNeverFails ==
    pc # "start" =>
        /\ pc = "summarised"
        /\ ReportKeysNeeded \subseteq DOMAIN summary

Summarised == pc = "summarised"

\* the 'Leading Organizations' of the summary
LeadingOrganizations == summary.detailed_findings.v.organizations

OrganizationsSeen == {OrganizationOf(documents[i]) : i \in 1..Len(documents)}

DocumentCount(org) ==
    Cardinality({i \in 1..Len(documents) : OrganizationOf(documents[i]) = org})

FirstSeen(org) ==
    CHOOSE i \in 1..Len(documents) :
        /\ OrganizationOf(documents[i]) = org
        /\ \A j \in 1..(i - 1) : OrganizationOf(documents[j]) # org

\* C26: the top organizations of the summary are at most 5 (all of them when
\* there are no more than 5), each with a document count not below that of any
\* organization left out, in descending order of count, organizations of equal
\* count in the order they were first seen in the document list.
C26_TopOrganizations ==
    Summarised =>
        LET top == LeadingOrganizations
            listed == {top[k] : k \in 1..Len(top)}
        IN  /\ Len(top) = Min(5, Cardinality(OrganizationsSeen))
            /\ listed \subseteq OrganizationsSeen
            /\ \A o \in listed : \A left \in OrganizationsSeen \ listed :
                  DocumentCount(o) >= DocumentCount(left)
            /\ \A k, l \in 1..Len(top) :
                  k < l =>
                      \/ DocumentCount(top[k]) > DocumentCount(top[l])
                      \/ /\ DocumentCount(top[k]) = DocumentCount(top[l])
                         /\ FirstSeen(top[k]) < FirstSeen(top[l])

\* six organizations, the one seen last has two documents and leads the five
\* listed; one of the others is left out
C26_Witness ==
    /\ Summarised
    /\ Cardinality(OrganizationsSeen) = 6
    /\ Len(LeadingOrganizations) = 5
    /\ DocumentCount(LeadingOrganizations[1]) = 2
    /\ FirstSeen(LeadingOrganizations[1]) = 6

\* the sections of the narrative
NarrativeSections == {"executive_summary", "methodology", "detailed_findings"}

\* C27: with a backend available and a non-empty document list,
\* generate_research_summary invokes the backend, and when the backend returns
\* a parsable dictionary with the narrative sections, that dictionary is what
\* is returned, not the template.
C27_NarrativeFromBackend ==
    (Summarised /\ llm.kind = "present" /\ Len(documents) > 0) =>
        /\ llm_calls = 1
        /\ llm.summary.r = "text" =>
              LET parsed == LiteralEval(llm.summary.text)
              IN  (/\ Len(parsed) = 1
                   /\ IsDict(parsed[1])
                   /\ NarrativeSections \subseteq DOMAIN parsed[1].v)
                      => summary = parsed[1].v

\* the kind of a document of the run: the category of the adapter it came from
CollectedKind(doc) ==
    IF \E i \in 1..Len(patents) : patents[i] = doc THEN "patent" ELSE "paper"

\* the estimate the readiness rule gives a document of a kind
RuleTrl(doc, kind) ==
    LET date == Get(doc, "publication_date", Get(doc, "published", ""))
        base == IF kind = "patent" THEN 5 ELSE 3
        recency == IF Len(date) > 0 /\ ~StrLess(date, "2020-01-01") THEN 1 ELSE 0
    IN  Min(9, base + Min(2, Get(doc, "citation_count", 0) \div 5) + recency)

\* C13: the readiness level of every innovation of the report is
\* min(9, base + min(2, citation_count div 5) + recency), base 5 for a document
\* collected as a patent and 3 for a paper, recency 1 exactly when the document
\* has a date on or after 2020-01-01.
C13_TrlEstimate ==
    pc = "delivered" =>
        LET ranked == SortDescending(documents, <<>>)
        IN  \A k \in 1..Len(report.innovations) :
                report.innovations[k].trl = RuleTrl(ranked[k], CollectedKind(ranked[k]))

\* the kind of the i-th document of the corpus: patents come first
KindAt(i) == IF i <= Len(patents) THEN "patent" ELSE "paper"

\* C16: the corpus handed to the analysis has at most one document per kind
\* and id.
C16_OnePerKindAndId ==
    pc = "delivered" =>
        \A i, j \in 1..Len(documents) :
            (i < j /\ KindAt(i) = KindAt(j)
                   /\ "id" \in DOMAIN documents[i] /\ "id" \in DOMAIN documents[j])
                => documents[i].id # documents[j].id

\* C17: no record without a parseable date is in the corpus, and no node of
\* the citation graph stands for one.
C17_UndatedDropped ==
    pc = "delivered" =>
        /\ \A i \in 1..Len(documents) : YearBin[documents[i]] # <<>>
        /\ \A i \in 1..Len(network.nodes) : network.nodes[i].date # "unknown"

\* C19: every record a patent adapter returned is a node of type "patent" and
\* is counted as a patent by the summary, every record a paper adapter returned
\* is a node of type "paper" and is counted as a paper.
C19_KindByCategory ==
    pc = "delivered" =>
        /\ \A i \in 1..Len(network.nodes) : network.nodes[i].type = KindAt(i)
        /\ Len(documents) > 0 =>
              /\ summary["executive_summary"].patents = Len(patents)
              /\ summary["executive_summary"].papers = Len(papers)

\* C18: when an adapter returned something that is not a list of records, the
\* run aborts: no report is delivered.
C18_BrokenContractAborts ==
    (\E a \in AdapterSet : calls[a] = "broke_contract") => pc # "delivered"

\* the parameters of the vocabulary named in the title or the abstract of each
\* record of the model, computed once
ParametersNamed ==
    [d \in KnownDocs |->
        {p \in DOMAIN parameter_keywords :
            StrContains(StrLower(p),
                        StrLower(Get(d, "title", "") \o " " \o Get(d, "abstract", "")))}]

\* the specification entries the report carries for a document
SpecificationsOf(doc) ==
    LET specs == report.raw_data.specifications
    IN  {specs[k] : k \in {j \in 1..Len(specs) :
                              specs[j].source_id = Get(doc, "id", "unknown")
                                  /\ specs[j].title = Get(doc, "title", "Untitled")}}

\* C28: for every collected document and every parameter of the vocabulary,
\* the extracted parameters of the document contain the parameter exactly when
\* its name occurs in the title+abstract text; a document that mentions a
\* parameter has a specification entry carrying it.
C28_ParametersExtracted ==
    pc = "delivered" =>
        \A i \in 1..Len(documents) :
            /\ ParametersNamed[documents[i]] # {} => SpecificationsOf(documents[i]) # {}
            /\ \A e \in SpecificationsOf(documents[i]) :
                  DOMAIN e.extracted_parameters = ParametersNamed[documents[i]]

\* a call of a patent adapter is under way
PatentSearchPending == pc \in {"await_google_patents", "await_uspto"}

\* C30: conduct_research overwrites the date_range and the organizations of the
\* planned spec with the caller's filter values, also when the caller gave
\* none: the patent adapters then get (None, None) and None, never the
\* planner's implied date range or organizations.
C30_FiltersOverwritePlan ==
    PatentSearchPending =>
        LET args == PatentSearchArguments(search_params)
        IN  /\ args.date_range = PyTuple(<<filters.start_date, filters.end_date>>)
            /\ args.assignees = filters.organizations
            /\ filters = NoFilters =>
                  /\ args.date_range = PyTuple(<<PyNone, PyNone>>)
                  /\ args.assignees = PyNone

\* the planner implied organizations and the caller gave no filter
C30_Witness ==
    /\ pc = "await_uspto"
    /\ filters = NoFilters
    /\ Get(DecomposeQuery(query, llm), "organizations", PyNone) = PyList(<<"NASA">>)
    /\ "implied_date_range" \in DOMAIN search_params

(***************************************************************************)
(* Properties of the planner.                                              *)
(***************************************************************************)
SearchSpecKeys == {"keywords", "ipc_codes", "subsystems", "implied_date_range", "organizations"}

\* C9: whatever the backend does, decompose_query returns a search spec that has
\* all of keywords, ipc_codes, subsystems, date range and organizations.
C9_ValidSearchSpec == pc = "decomposed" => SearchSpecKeys \subseteq DOMAIN search_params

\* the fields _parse_response_with_regex looks for
RegexFields == {"keywords", "ipc_codes", "organizations"}

\* C25: the planner tries the structured parse of the backend response first,
\* the regex extraction over the response text only if that fails, and the
\* heuristic over the query if that extracts no field either: whenever neither
\* yields the fields, the returned spec is the fallback spec.
C25_ThreePathsInOrder ==
    (pc = "decomposed" /\ llm.kind = "present" /\ llm.plan.r = "text") =>
        LET text == llm.plan.text
            parsed == LiteralEval(text)
            structured == Len(parsed) = 1 /\ IsDict(parsed[1])
            extracted == \E f \in RegexFields : RegexGroup(f, text) # <<>>
        IN  /\ structured => search_params = parsed[1].v
            /\ (~structured /\ extracted) => search_params = ParseResponseWithRegex(text)
            /\ (~structured /\ ~extracted) => search_params = FallbackDecompose(query)

\* C10: the fallback decomposition returns, for every query and without calling
\* the backend, a spec with at most 5 keywords and a non-empty ipc_codes list.
C10_FallbackBounded ==
    pc = "fallback_done" =>
        /\ SearchSpecKeys \subseteq DOMAIN search_params
        /\ IsList(search_params.keywords) /\ Len(search_params.keywords.v) <= 5
        /\ IsList(search_params.ipc_codes) /\ Len(search_params.ipc_codes.v) >= 1
        /\ llm_calls = 0

\* a query with more than 5 candidate words, cut to 5 keywords
C10_Witness ==
    /\ pc = "fallback_done"
    /\ Len(FallbackKeywords(query)) > 5
    /\ Len(search_params.keywords.v) = 5

=============================================================================
